---------------------------- MODULE Spec2Model ----------------------------
(***************************************************************************)
(* Model of ddo_wiki_monster_scraper (src/main.py).                        *)
(*                                                                         *)
(* A Python str is modelled as a sequence of one-character strings, so     *)
(* that strip(), lower(), split(), replace(), startswith() and the string  *)
(* ordering used by the sort are computed character by character.          *)
(***************************************************************************)
EXTENDS Integers, Sequences, FiniteSets, TLC

VARIABLES
    pc,            \* position of main_loop / get_monsters_in_quest
    user_input,    \* main_loop: user_input after strip().lower()
    configs,       \* main_loop: the loaded configs (columns, base url)
    quest_urls,    \* get_monsters_in_quest: quest name -> url
    closest,       \* get_monsters_in_quest: closest_matching_quest
    monster_urls,  \* get_monsters_in_quest: monster name -> url, in dict order
    monster_info,  \* get_monsters_in_quest: rows built so far
    df,            \* get_monsters_in_quest: the DataFrame returned
    stdout,        \* what print() has emitted during the current query
    fetched,       \* the pages requests.get() was called for during the current query
    exit_reason,   \* why main_loop is no longer running ("" while it runs)
    args,          \* arguments of a directly called method
    ret            \* result of a directly called method

pipeVars == <<pc, user_input, configs, quest_urls, closest, monster_urls,
              monster_info, df, stdout, fetched, exit_reason>>
callVars == <<args, ret>>
vars == <<pc, user_input, configs, quest_urls, closest, monster_urls,
          monster_info, df, stdout, fetched, exit_reason, args, ret>>

----------------------------------------------------------------------------
(* Bounds of the model *)

\* longest query typed / longest string argument enumerated character by character
MaxLen == 2
\* most candidate names handed to get_closest_matching_quest
MaxCands == 2
\* most characters in all candidate names together
MaxTotal == 3
\* most pieces (words, separators) a page text is built from
MaxPieces == 4
\* most pieces (words, separators) in all alignment values of one call together
MaxAlignPieces == 3
\* most keywords in configs["columns"]
MaxKeywords == 2
\* most alignment values handed to get_lawfulness / get_goodness
MaxAligns == 2
\* most data rows in the table of a listing page
MaxRows == 2
\* most monsters listed on a quest page
MaxMonsters == 2

----------------------------------------------------------------------------
(* Python str primitives *)

\* The characters of the model, by code point.
Upper == <<"A", "B", "C", "D", "E", "F", "G", "H", "I", "J", "K", "L", "M",
           "N", "O", "P", "Q", "R", "S", "T", "U", "V", "W", "X", "Y", "Z">>
Lowercase == <<"a", "b", "c", "d", "e", "f", "g", "h", "i", "j", "k", "l", "m",
               "n", "o", "p", "q", "r", "s", "t", "u", "v", "w", "x", "y", "z">>

\* position of c in the sequence cs
IndexOf(cs, c) == CHOOSE i \in 1..Len(cs) : cs[i] = c

\* ord(c)
Ord(c) ==
    IF c \in {Upper[i] : i \in 1..26} THEN 64 + IndexOf(Upper, c)
    ELSE IF c \in {Lowercase[i] : i \in 1..26} THEN 96 + IndexOf(Lowercase, c)
    ELSE CASE c = "\t" -> 9
           [] c = "\n" -> 10
           [] c = " " -> 32
           [] c = "(" -> 40
           [] c = ")" -> 41
           [] c = ":" -> 58

\* str.isspace() of one character
IsSpace(c) == c \in {" ", "\t", "\n"}

\* str.lower() of one character
LowerChar(c) == IF Ord(c) \in 65..90 THEN Lowercase[Ord(c) + 32 - 96] ELSE c

\* str.lower()
Lower(s) == [i \in 1..Len(s) |-> LowerChar(s[i])]

\* str.strip(): drop leading and trailing whitespace
Strip(s) ==
    LET keep == {i \in 1..Len(s) : ~IsSpace(s[i])}
    IN  IF keep = {} THEN <<>>
        ELSE LET lo == CHOOSE i \in keep : \A j \in keep : i <= j
                 hi == CHOOSE i \in keep : \A j \in keep : j <= i
             IN  SubSeq(s, lo, hi)

\* s[i:] (0-based i)
From(s, i) == SubSeq(s, i + 1, Len(s))

\* str.startswith(prefix)
StartsWith(s, prefix) ==
    /\ Len(prefix) <= Len(s)
    /\ SubSeq(s, 1, Len(prefix)) = prefix

\* index (0-based) of the first occurrence of old in s at or after i, or -1: str.find
Find(s, old, i) ==
    LET hits == {k \in i..(Len(s) - Len(old)) : SubSeq(s, k + 1, k + Len(old)) = old}
    IN  IF hits = {} THEN -1 ELSE CHOOSE k \in hits : \A h \in hits : k <= h

\* str.replace(old, ""): every non-overlapping occurrence, left to right
RECURSIVE Remove(_, _)
Remove(s, old) ==
    IF old = <<>> THEN s
    ELSE LET k == Find(s, old, 0)
         IN  IF k = -1 THEN s
             ELSE SubSeq(s, 1, k) \o Remove(From(s, k + Len(old)), old)

\* str.split(sep) for a one-character sep: always at least one piece
RECURSIVE Split(_, _)
Split(s, sep) ==
    LET k == Find(s, <<sep>>, 0)
    IN  IF k = -1 THEN <<s>>
        ELSE <<SubSeq(s, 1, k)>> \o Split(From(s, k + 1), sep)

\* s < t in the str ordering of Python (code points, then length)
RECURSIVE StrLess(_, _)
StrLess(s, t) ==
    IF t = <<>> THEN FALSE
    ELSE IF s = <<>> THEN TRUE
    ELSE IF s[1] = t[1] THEN StrLess(Tail(s), Tail(t))
    ELSE Ord(s[1]) < Ord(t[1])

\* all strings over alphabet S of at most n characters
StrsUpTo(S, n) == UNION {[1..k -> S] : k \in 0..n}

\* concatenation of a sequence of strings
RECURSIVE Concat(_)
Concat(ss) == IF ss = <<>> THEN <<>> ELSE Head(ss) \o Concat(Tail(ss))

\* the range of a sequence
Range(f) == {f[i] : i \in DOMAIN f}

----------------------------------------------------------------------------
(* difflib.SequenceMatcher(None, a, b).ratio(), for strings shorter than   *)
(* 200 characters (no junk, no "popular" elements).  Indices are 0-based,  *)
(* ranges half open, as in difflib.                                        *)

\* length of the common run a[i:i+k] = b[j:j+k] inside a[..ahi], b[..bhi]
RECURSIVE RunLen(_, _, _, _, _, _)
RunLen(a, b, i, j, ahi, bhi) ==
    IF i < ahi /\ j < bhi /\ a[i + 1] = b[j + 1]
    THEN 1 + RunLen(a, b, i + 1, j + 1, ahi, bhi)
    ELSE 0

\* SequenceMatcher.find_longest_match: <<i, j, k>>, the longest block; of those
\* the one starting earliest in a; of those the one starting earliest in b
find_longest_match(a, b, alo, ahi, blo, bhi) ==
    LET starts == (alo..(ahi - 1)) \X (blo..(bhi - 1))
        size(p) == RunLen(a, b, p[1], p[2], ahi, bhi)
        sizes == {size(p) : p \in starts}
    IN  IF \A k \in sizes : k = 0 THEN <<alo, blo, 0>>
        ELSE LET k  == CHOOSE m \in sizes : \A n \in sizes : n <= m
                 bi == CHOOSE i \in alo..(ahi - 1) :
                          /\ \E j \in blo..(bhi - 1) : size(<<i, j>>) = k
                          /\ \A p \in starts : size(p) = k => i <= p[1]
                 bj == CHOOSE j \in blo..(bhi - 1) :
                          /\ size(<<bi, j>>) = k
                          /\ \A j2 \in blo..(bhi - 1) : size(<<bi, j2>>) = k => j <= j2
             IN  <<bi, bj, k>>

\* SequenceMatcher.get_matching_blocks, summed: the number of matched characters
RECURSIVE matches(_, _, _, _, _, _)
matches(a, b, alo, ahi, blo, bhi) ==
    LET m == find_longest_match(a, b, alo, ahi, blo, bhi)
        i == m[1]
        j == m[2]
        k == m[3]
    IN  IF k = 0 THEN 0
        ELSE k
             + (IF alo < i /\ blo < j THEN matches(a, b, alo, i, blo, j) ELSE 0)
             + (IF i + k < ahi /\ j + k < bhi
                THEN matches(a, b, i + k, ahi, j + k, bhi) ELSE 0)

\* ratio() as the fraction <<numerator, denominator>>: 2.0 * matches / length,
\* and 1.0 when both strings are empty
ratio(a, b) ==
    IF Len(a) + Len(b) = 0 THEN <<1, 1>>
    ELSE <<2 * matches(a, b, 0, Len(a), 0, Len(b)), Len(a) + Len(b)>>

\* x < y for two ratios
ScoreLess(x, y) == x[1] * y[2] < y[1] * x[2]

----------------------------------------------------------------------------
(* DDOWikiScraper.get_closest_matching_quest *)

\* the result of a call: a value, or the exception that left it
Ok(v) == [kind |-> "ok", value |-> v]
Raise(e) == [kind |-> e, value |-> <<>>]

\* similarity of one candidate (main.py 159-160)
similarity(quest_name, candidate_name) ==
    ratio(Strip(Lower(quest_name)), Strip(Lower(candidate_name)))

\* candidate_scores (main.py 154-161), index i scores candidate_names[i]
candidate_scores(quest_name, candidate_names) ==
    [i \in 1..Len(candidate_names) |-> similarity(quest_name, candidate_names[i])]

\* mutant of zip: pairs each score with the cleaned-up name it was computed from
zip_normalized(scores, names) ==
    [i \in 1..Len(names) |-> <<scores[i], Strip(Lower(names[i]))>>]

\* list(zip(candidate_scores, candidate_names)) (main.py 164)
zip(scores, names) == [i \in 1..Len(names) |-> <<scores[i], names[i]>>]

\* mutant of insert_sorted: puts a pair before the pairs of equal score
insert_sorted_before_equal(sorted_pairs, pair) ==
    LET before == {i \in 1..Len(sorted_pairs) : ScoreLess(sorted_pairs[i][1], pair[1])}
        n == Cardinality(before)
    IN  SubSeq(sorted_pairs, 1, n) \o <<pair>> \o SubSeq(sorted_pairs, n + 1, Len(sorted_pairs))

\* one step of the stable sort: pair goes after every pair whose score is not larger
insert_sorted(sorted_pairs, pair) ==
    LET before == {i \in 1..Len(sorted_pairs) : ~ScoreLess(pair[1], sorted_pairs[i][1])}
        n == Cardinality(before)
    IN  SubSeq(sorted_pairs, 1, n) \o <<pair>> \o SubSeq(sorted_pairs, n + 1, Len(sorted_pairs))

\* sorted(pairs, key=lambda x: x[0]) (main.py 164): stable, ascending by score
RECURSIVE sorted_by_score(_)
sorted_by_score(pairs) ==
    IF pairs = <<>> THEN <<>>
    ELSE insert_sorted(sorted_by_score(SubSeq(pairs, 1, Len(pairs) - 1)), pairs[Len(pairs)])

\* mutant of get_closest_matching_quest: an empty candidate list gives ""
get_closest_matching_quest_or_empty(quest_name, candidate_names) ==
    LET candidates == sorted_by_score(
            zip(candidate_scores(quest_name, candidate_names), candidate_names))
    IN  IF candidates = <<>> THEN Ok(<<>>)
        ELSE Ok(candidates[Len(candidates)][2])

\* main.py 143-167
get_closest_matching_quest(quest_name, candidate_names) ==
    LET candidates == sorted_by_score(
            zip(candidate_scores(quest_name, candidate_names), candidate_names))
    IN  IF candidates = <<>> THEN Raise("IndexError")
        ELSE Ok(candidates[Len(candidates)][2])

----------------------------------------------------------------------------
(* State of main_loop before the first prompt; the state the directly      *)
(* called methods leave untouched.                                         *)

NoConfigs == [columns |-> <<>>, loaded |-> FALSE]
NoTable == [columns |-> <<>>, rows |-> <<>>]
NotCalled == [kind |-> "none", value |-> <<>>]

PipeInit ==
    /\ pc = "prompt"
    /\ user_input = <<>>
    /\ configs = NoConfigs
    /\ quest_urls = <<>>
    /\ closest = <<>>
    /\ monster_urls = <<>>
    /\ monster_info = <<>>
    /\ df = NoTable
    /\ stdout = <<>>
    /\ fetched = <<>>
    /\ exit_reason = ""

----------------------------------------------------------------------------
(* get_closest_matching_quest called on every query of at most MaxLen      *)
(* characters and every list of at most MaxCands candidates holding at     *)
(* most MaxTotal characters, over an upper-case letter, a lower-case       *)
(* letter and a blank.                                                     *)

MatchChars == {"A", "b", " "}

\* lists of at most k strings over S with at most n characters in all
RECURSIVE NameLists(_, _, _)
NameLists(S, k, n) ==
    IF k = 0 THEN {<<>>}
    ELSE {<<>>} \cup
         UNION {{<<s>> \o l : l \in NameLists(S, k - 1, n - Len(s))} : s \in StrsUpTo(S, n)}

InitMatch ==
    /\ PipeInit
    /\ args \in [quest_name : StrsUpTo(MatchChars, MaxLen),
                 candidate_names : NameLists(MatchChars, MaxCands, MaxTotal)]
    /\ ret = NotCalled

CallMatch ==
    /\ ret = NotCalled
    /\ ret' = get_closest_matching_quest(args.quest_name, args.candidate_names)
    /\ UNCHANGED <<args, pipeVars>>

NextMatch == CallMatch

SpecMatch == InitMatch /\ [][NextMatch]_vars

\* C2: for a non-empty candidate list the matcher returns one of the candidates
\* exactly as supplied, and match(x, [x]) = x.
C2_ReturnsSuppliedCandidate ==
    (ret # NotCalled /\ args.candidate_names # <<>>) =>
        /\ ret.kind = "ok"
        /\ ret.value \in Range(args.candidate_names)
        /\ (args.candidate_names = <<args.quest_name>> => ret.value = args.quest_name)

\* C2 witness: the matcher returned a candidate that differs from its cleaned-up form
C2_Witness ==
    /\ ret.kind = "ok"
    /\ Len(args.candidate_names) = 2
    /\ Strip(Lower(ret.value)) # ret.value
    /\ Strip(Lower(ret.value)) = Strip(Lower(args.quest_name))

\* i is a position of candidate_names whose score is the maximum
HasMaxScore(i) ==
    \A j \in 1..Len(args.candidate_names) :
        ~ScoreLess(similarity(args.quest_name, args.candidate_names[i]),
                   similarity(args.quest_name, args.candidate_names[j]))

\* C3: the matcher returns the last-listed of the candidates that share the
\* maximum score, never a candidate of lower score.
C3_LastOfTiedMaximum ==
    (ret # NotCalled /\ args.candidate_names # <<>>) =>
        LET tied == {i \in 1..Len(args.candidate_names) : HasMaxScore(i)}
            last == CHOOSE i \in tied : \A j \in tied : j <= i
        IN  ret = Ok(args.candidate_names[last])

\* C3 witness: two different candidates tie for the maximum and the second is returned
C3_Witness ==
    /\ ret.kind = "ok"
    /\ Len(args.candidate_names) = 2
    /\ args.candidate_names[1] # args.candidate_names[2]
    /\ HasMaxScore(1) /\ HasMaxScore(2)
    /\ ret.value = args.candidate_names[2]

----------------------------------------------------------------------------
(* DDOWikiScraper.get_monster_info *)

\* a page as requests.get and BeautifulSoup deliver it: the fetch succeeded or
\* raised; the element the method looks up (by id) is there or not
Page(ok, found, body) == [ok |-> ok, found |-> found, body |-> body]

\* main.py 118-121: split into lines, strip, drop empty lines, keep the lines
\* that start with one of the keywords
keyword_lines(text, keywords) ==
    LET split == Split(text, "\n")
        stripped == [i \in 1..Len(split) |-> Strip(split[i])]
        nonempty == SelectSeq(stripped, LAMBDA line : line # <<>>)
    IN  SelectSeq(nonempty, LAMBDA line : \E i \in 1..Len(keywords) : StartsWith(line, keywords[i]))

\* main.py 126-131: the first line that starts with keyword, or "" without one
first_line(lines, keyword) ==
    LET hits == {i \in 1..Len(lines) : StartsWith(lines[i], keyword)}
    IN  IF hits = {} THEN <<>>
        ELSE lines[CHOOSE i \in hits : \A j \in hits : i <= j]

\* mutant of raw_info: the loop without its else branch, no entry for a keyword
\* that no line starts with
raw_info_without_else(lines, keywords) ==
    [keyword \in {k \in Range(keywords) : \E i \in 1..Len(lines) : StartsWith(lines[i], k)}
        |-> first_line(lines, keyword)]

\* main.py 124-131: the dict keyword -> raw line
raw_info(lines, keywords) ==
    [keyword \in Range(keywords) |-> first_line(lines, keyword)]

ListMarker == <<"(", "L", "i", "s", "t", ")">>

\* main.py 135-138: the clean-up of one entry
clean(key, value) ==
    Strip(Remove(Remove(Remove(value, key), <<":">>), ListMarker))

\* main.py 105-141; page is what the url delivers, keywords is configs["columns"]
get_monster_info(page, keywords) ==
    IF ~page.ok THEN Raise("ConnectionError")
    ELSE IF ~page.found THEN Raise("AttributeError")
    ELSE LET raw == raw_info(keyword_lines(page.body, keywords), keywords)
         IN  Ok([key \in DOMAIN raw |-> clean(key, raw[key])])

----------------------------------------------------------------------------
(* get_monster_info applied to every text of at most MaxPieces pieces and  *)
(* every list of at most MaxKeywords keywords.                             *)

Race == <<"R", "a", "c", "e">>
TextPieces == {Race, <<"x">>, <<":">>, <<" ">>, <<"\n">>, ListMarker}
KeywordPool == {Race, <<"x">>}

\* all concatenations of at most n pieces
RECURSIVE Texts(_, _)
Texts(pieces, n) ==
    IF n = 0 THEN {<<>>}
    ELSE {<<>>} \cup {p \o t : p \in pieces, t \in Texts(pieces, n - 1)}

InitExtract ==
    /\ PipeInit
    /\ args \in [text : Texts(TextPieces, MaxPieces),
                 keywords : StrsUpTo(KeywordPool, MaxKeywords)]
    /\ ret = NotCalled

CallExtract ==
    /\ ret = NotCalled
    /\ ret' = get_monster_info(Page(TRUE, TRUE, args.text), args.keywords)
    /\ UNCHANGED <<args, pipeVars>>

NextExtract == CallExtract

SpecExtract == InitExtract /\ [][NextExtract]_vars

\* the stripped, non-empty lines of the text that start with keyword, in text order
LinesStarting(text, keyword) ==
    LET split == Split(text, "\n")
    IN  SelectSeq([i \in 1..Len(split) |-> Strip(split[i])],
                  LAMBDA line : line # <<>> /\ StartsWith(line, keyword))

\* C6: the record has exactly the configured keywords as keys, and a keyword that
\* no line starts with maps to the empty string; the extraction never fails.
C6_OneEntryPerKeyword ==
    ret # NotCalled =>
        /\ ret.kind = "ok"
        /\ DOMAIN ret.value = Range(args.keywords)
        /\ \A k \in Range(args.keywords) :
              LinesStarting(args.text, k) = <<>> => ret.value[k] = <<>>

\* C6 witness: a record with one keyword found and one keyword absent from the text
C6_Witness ==
    /\ ret.kind = "ok"
    /\ \E k \in Range(args.keywords) :
          LinesStarting(args.text, k) = <<>> /\ args.text # <<>>
    /\ \E k \in Range(args.keywords) : ret.value[k] # <<>>

\* str.replace(old, "", 1): the first occurrence only
RemoveFirst(s, old) ==
    LET k == Find(s, old, 0)
    IN  IF k = -1 \/ old = <<>> THEN s
        ELSE SubSeq(s, 1, k) \o From(s, k + Len(old))

\* C7: the value of a keyword is its first line with the first occurrence of the
\* keyword removed (later occurrences kept), all colons and all "(List)" removed,
\* and the result stripped.
C7_FirstOccurrenceRemoved ==
    ret # NotCalled =>
        \A k \in Range(args.keywords) :
            LinesStarting(args.text, k) # <<>> =>
                ret.value[k] =
                    Strip(Remove(Remove(RemoveFirst(LinesStarting(args.text, k)[1], k),
                                        <<":">>), ListMarker))


----------------------------------------------------------------------------
(* DDOWikiScraper.get_lawfulness and get_goodness *)

TrueNeutral == <<"t", "r", "u", "e", " ", "n", "e", "u", "t", "r", "a", "l">>
NeutralNeutral == <<"N", "e", "u", "t", "r", "a", "l", " ", "N", "e", "u", "t", "r", "a", "l">>

\* main.py 178-185 / 208-215: strip, rewrite "True Neutral", split on " "
alignment_split(alignment) ==
    LET stripped == Strip(alignment)
    IN  Split(IF Lower(stripped) = TrueNeutral THEN NeutralNeutral ELSE stripped, " ")

\* mutant of lawfulness_append: no else branch, an empty alignment appends nothing
lawfulness_append_without_else(lawfulness, alignment) ==
    IF alignment # <<>>
    THEN LET split == alignment_split(alignment)
         IN  IF Len(split) < 1 THEN Append(lawfulness, <<>>)
             ELSE Append(lawfulness, split[1])
    ELSE lawfulness

\* main.py 177-195: the body of the loop of get_lawfulness
lawfulness_append(lawfulness, alignment) ==
    IF alignment # <<>>
    THEN LET split == alignment_split(alignment)
         IN  IF Len(split) < 1 THEN Append(lawfulness, <<>>)
             ELSE IF Len(split) = 1 THEN Append(lawfulness, split[1])
             ELSE Append(lawfulness, split[1])
    ELSE Append(lawfulness, <<>>)

\* main.py 207-225: the body of the loop of get_goodness
goodness_append(goodness, alignment) ==
    IF alignment # <<>>
    THEN LET split == alignment_split(alignment)
         IN  IF Len(split) < 1 THEN Append(goodness, <<>>)
             ELSE IF Len(split) = 1 THEN Append(goodness, split[1])
             ELSE Append(goodness, split[2])
    ELSE Append(goodness, <<>>)

\* main.py 175-197: lawfulness = []; for alignment in alignments: ...
RECURSIVE get_lawfulness(_)
get_lawfulness(alignments) ==
    IF alignments = <<>> THEN <<>>
    ELSE lawfulness_append(get_lawfulness(SubSeq(alignments, 1, Len(alignments) - 1)),
                           alignments[Len(alignments)])

\* main.py 205-226: goodness = []; for alignment in alignments: ...
RECURSIVE get_goodness(_)
get_goodness(alignments) ==
    IF alignments = <<>> THEN <<>>
    ELSE goodness_append(get_goodness(SubSeq(alignments, 1, Len(alignments) - 1)),
                         alignments[Len(alignments)])

----------------------------------------------------------------------------
(* get_lawfulness and get_goodness applied to every list of at most        *)
(* MaxAligns values built from at most MaxAlignPieces pieces in all, and   *)
(* to the list of the documented example.                                  *)

True == <<"T", "r", "u", "e">>
Neutral == <<"N", "e", "u", "t", "r", "a", "l">>
NEUTRAL == <<"N", "E", "U", "T", "R", "A", "L">>
Evil == <<"E", "v", "i", "l">>
Good == <<"G", "o", "o", "d">>
Chaotic == <<"C", "h", "a", "o", "t", "i", "c">>
AlignPieces == {True, Neutral, NEUTRAL, Evil, <<" ">>, <<"\t">>}

\* lists of at most k values, each a concatenation of pieces, of at most n pieces in all
RECURSIVE PieceLists(_, _, _)
PieceLists(pieces, k, n) ==
    IF k = 0 THEN {<<>>}
    ELSE {<<>>} \cup
         UNION {{<<Concat(v)>> \o l : l \in PieceLists(pieces, k - 1, n - Len(v))} :
                    v \in StrsUpTo(pieces, n)}

ExampleAlignments == <<Chaotic \o <<" ">> \o Evil, True \o <<" ">> \o Neutral, <<>>, Good>>

InitAlign ==
    /\ PipeInit
    /\ args \in [alignments : PieceLists(AlignPieces, MaxAligns, MaxAlignPieces)
                                \cup {ExampleAlignments}]
    /\ ret = NotCalled

CallAlign ==
    /\ ret = NotCalled
    /\ ret' = Ok([lawfulness |-> get_lawfulness(args.alignments),
                  goodness |-> get_goodness(args.alignments)])
    /\ UNCHANGED <<args, pipeVars>>

NextAlign == CallAlign

SpecAlign == InitAlign /\ [][NextAlign]_vars

\* the two axis values the claim gives for one alignment value
AxesOf(v) ==
    LET tokens == Split(Strip(v), " ")
    IN  IF v = <<>> THEN <<<<>>, <<>>>>
        ELSE IF Lower(Strip(v)) = TrueNeutral THEN <<Neutral, Neutral>>
        ELSE IF Len(tokens) = 1 THEN <<tokens[1], tokens[1]>>
        ELSE <<tokens[1], tokens[2]>>

\* C8: both outputs have the length of the input, and position i is the axis value
\* of input position i alone: "" for "", "Neutral" on both axes for "true neutral"
\* in any case, the single token on both axes, else token 0 and token 1.
C8_ElementWiseAxes ==
    ret # NotCalled =>
        /\ Len(ret.value.lawfulness) = Len(args.alignments)
        /\ Len(ret.value.goodness) = Len(args.alignments)
        /\ \A i \in 1..Len(args.alignments) :
              /\ ret.value.lawfulness[i] = AxesOf(args.alignments[i])[1]
              /\ ret.value.goodness[i] = AxesOf(args.alignments[i])[2]
        /\ args.alignments = ExampleAlignments =>
              /\ ret.value.lawfulness = <<Chaotic, Neutral, <<>>, Good>>
              /\ ret.value.goodness = <<Evil, Neutral, <<>>, Good>>

\* C8 witness: a list holding an empty value and, after it, a "true neutral" in
\* another case, decomposed
C8_Witness ==
    /\ ret # NotCalled
    /\ Len(args.alignments) = 2
    /\ args.alignments[1] = <<>>
    /\ args.alignments[2] = True \o <<" ">> \o NEUTRAL
    /\ ret.value.goodness = <<<<>>, Neutral>>


----------------------------------------------------------------------------
(* urllib.parse.urljoin on parsed urls: scheme and netloc are atoms, the   *)
(* path is a str; params, query and fragment are empty.                    *)

Url(scheme, netloc, path) == [scheme |-> scheme, netloc |-> netloc, path |-> path]
EmptyUrl == Url("", "", <<>>)
UsesRelative == {"", "http", "https", "ftp"}
UsesNetloc == {"", "http", "https", "ftp"}

\* sep.join(segments)
RECURSIVE Join(_, _)
Join(segments, sep) ==
    IF segments = <<>> THEN <<>>
    ELSE IF Len(segments) = 1 THEN segments[1]
    ELSE segments[1] \o <<sep>> \o Join(Tail(segments), sep)

\* the loop over segments: ".." pops, "." is skipped, anything else is appended
RECURSIVE resolve_segments(_, _)
resolve_segments(resolved_path, segments) ==
    IF segments = <<>> THEN resolved_path
    ELSE LET seg == Head(segments)
         IN  resolve_segments(
                 IF seg = <<".", ".">>
                 THEN (IF resolved_path = <<>> THEN <<>>
                       ELSE SubSeq(resolved_path, 1, Len(resolved_path) - 1))
                 ELSE IF seg = <<".">> THEN resolved_path
                 ELSE Append(resolved_path, seg),
                 Tail(segments))

\* the path of urljoin(base, url) for a non-empty url path
resolve_path(bpath, path) ==
    LET split_base == Split(bpath, "/")
        base_parts == IF split_base[Len(split_base)] # <<>>
                      THEN SubSeq(split_base, 1, Len(split_base) - 1)
                      ELSE split_base
        joined == base_parts \o Split(path, "/")
        segments == IF path[1] = "/" THEN Split(path, "/")
                    ELSE IF Len(joined) <= 2 THEN joined
                    ELSE <<joined[1]>>
                         \o SelectSeq(SubSeq(joined, 2, Len(joined) - 1), LAMBDA seg : seg # <<>>)
                         \o <<joined[Len(joined)]>>
        resolved == resolve_segments(<<>>, segments)
        resolved_path == IF segments[Len(segments)] \in {<<".">>, <<".", ".">>}
                         THEN Append(resolved, <<>>) ELSE resolved
    IN  IF Join(resolved_path, "/") = <<>> THEN <<"/">> ELSE Join(resolved_path, "/")

\* urlunparse, read back as a parsed url: behind a netloc the path starts with "/"
urlunparse(scheme, netloc, path) ==
    Url(scheme, netloc,
        IF netloc # "" /\ path # <<>> /\ path[1] # "/" THEN <<"/">> \o path ELSE path)

\* urllib.parse.urljoin(base, url) (main.py 77, 101)
urljoin(base, url) ==
    IF base = EmptyUrl THEN url
    ELSE IF url = EmptyUrl THEN base
    ELSE LET scheme == IF url.scheme = "" THEN base.scheme ELSE url.scheme
         IN  IF scheme # base.scheme \/ scheme \notin UsesRelative THEN url
             ELSE IF scheme \in UsesNetloc /\ url.netloc # ""
             THEN urlunparse(scheme, url.netloc, url.path)
             ELSE LET netloc == IF scheme \in UsesNetloc THEN base.netloc ELSE url.netloc
                  IN  IF url.path = <<>> THEN urlunparse(scheme, netloc, base.path)
                      ELSE urlunparse(scheme, netloc, resolve_path(base.path, url.path))

----------------------------------------------------------------------------
(* DDOWikiScraper.get_quest_urls and get_monster_urls                      *)
(*                                                                         *)
(* A listing page is [ok, section, table, rows]: whether the fetch         *)
(* succeeded, the id of the section heading the page holds, whether an     *)
(* element follows that heading, and the first-column cells of the data    *)
(* rows of that element, each cell the sequence of its links.  A dict is   *)
(* the sequence of its <<key, value>> items in insertion order.            *)

Listing(ok, section, table, rows) ==
    [ok |-> ok, section |-> section, table |-> table, rows |-> rows]
Link(title, href) == [title |-> title, href |-> href]

\* the keys of a dict
Keys(dict) == {dict[i][1] : i \in 1..Len(dict)}

\* dict[key]
Lookup(dict, key) == dict[CHOOSE i \in 1..Len(dict) : dict[i][1] = key][2]

\* mutant of dict_set: the first entry of a key is kept, as dict.setdefault does
dict_setdefault(dict, key, value) ==
    IF key \in Keys(dict) THEN dict ELSE Append(dict, <<key, value>>)

\* dict[key] = value: a new key is added at the end, an old key keeps its place
dict_set(dict, key, value) ==
    IF key \in Keys(dict)
    THEN [i \in 1..Len(dict) |-> IF dict[i][1] = key THEN <<key, value>> ELSE dict[i]]
    ELSE Append(dict, <<key, value>>)

\* main.py 72-77 / 96-101: the loop over the first-column cells
RECURSIVE harvest_cells(_, _, _)
harvest_cells(urls, cells, base) ==
    IF cells = <<>> THEN Ok(urls)
    ELSE IF Head(cells) = <<>> THEN Raise("TypeError")
    ELSE LET a == Head(cells)[1]
         IN  harvest_cells(dict_set(urls, a.title, urljoin(base, a.href)), Tail(cells), base)

\* main.py 63-79 / 87-103 for the section id looked up
harvest(page, id, base) ==
    IF ~page.ok THEN Raise("ConnectionError")
    ELSE IF page.section # id THEN Raise("AttributeError")
    ELSE IF ~page.table THEN Raise("AttributeError")
    ELSE harvest_cells(<<>>, page.rows, base)

\* main.py 55-79; page is what the listing url delivers
get_quest_urls(page, cfg) == harvest(page, cfg.level, cfg.ddo_wiki_base_url)

\* main.py 81-103; page is what the quest url delivers
get_monster_urls(page, cfg) == harvest(page, "Monsters", cfg.ddo_wiki_base_url)

----------------------------------------------------------------------------
(* The two harvesters applied to every listing page of at most MaxRows     *)
(* rows.                                                                   *)

Level == "Heroic"
Goblin == <<"G", "o", "b">>
Kobold == <<"K", "o", "b">>
WikiG == <<"/", "w", "i", "k", "i", "/", "G">>
WikiK == <<"/", "w", "i", "k", "i", "/", "K">>
Hrefs == {Url("", "", WikiG), Url("", "", WikiK), Url("", "", <<"K">>),
          Url("", "", <<".", ".", "/", "G">>), Url("https", "other.org", WikiG)}
BaseUrls == {Url("https", "ddowiki.com", <<>>),
             Url("https", "ddowiki.com", <<"/", "p", "/", "q">>)}
Links == {Link(t, h) : t \in {Goblin, Kobold}, h \in Hrefs}
Decoy == Link(<<"Z">>, Url("", "", <<"Z">>))
Cells == {<<>>} \cup {<<l>> : l \in Links} \cup {<<l, Decoy>> : l \in Links}

Config(level, base, columns) ==
    [level |-> level, ddo_wiki_base_url |-> base, columns |-> columns, loaded |-> TRUE]

InitHarvest ==
    /\ PipeInit
    /\ args \in [method : {"get_quest_urls", "get_monster_urls"},
                 page : {Listing(ok, section, table, rows) :
                            ok \in BOOLEAN, section \in {Level, "Monsters"},
                            table \in BOOLEAN, rows \in StrsUpTo(Cells, MaxRows)},
                 configs : {Config(Level, base, <<>>) : base \in BaseUrls}]
    /\ ret = NotCalled

CallQuestUrls ==
    /\ ret = NotCalled
    /\ args.method = "get_quest_urls"
    /\ ret' = get_quest_urls(args.page, args.configs)
    /\ UNCHANGED <<args, pipeVars>>

CallMonsterUrls ==
    /\ ret = NotCalled
    /\ args.method = "get_monster_urls"
    /\ ret' = get_monster_urls(args.page, args.configs)
    /\ UNCHANGED <<args, pipeVars>>

NextHarvest == CallQuestUrls \/ CallMonsterUrls

SpecHarvest == InitHarvest /\ [][NextHarvest]_vars

\* the section the called method looks up is on the page, a table follows it and
\* every first-column cell holds a link
Harvestable ==
    /\ args.page.ok
    /\ args.page.table
    /\ args.page.section = (IF args.method = "get_quest_urls" THEN Level ELSE "Monsters")
    /\ \A i \in 1..Len(args.page.rows) : args.page.rows[i] # <<>>

\* C10: the map has exactly the titles of the first links as keys, each once, and
\* maps a title to the href of the last row with that title, resolved against
\* the base url; so it has as many entries as there are distinct titles.
C10_HarvestLastWins ==
    (ret # NotCalled /\ Harvestable) =>
        LET rows == args.page.rows
            titles == {rows[i][1].title : i \in 1..Len(rows)}
            lastRow(t) == CHOOSE i \in 1..Len(rows) :
                              /\ rows[i][1].title = t
                              /\ \A j \in 1..Len(rows) : rows[j][1].title = t => j <= i
        IN  /\ ret.kind = "ok"
            /\ Keys(ret.value) = titles
            /\ Len(ret.value) = Cardinality(titles)
            /\ \A t \in titles :
                  LET href == rows[lastRow(t)][1].href
                      base == args.configs.ddo_wiki_base_url
                  IN  /\ Lookup(ret.value, t) = urljoin(base, href)
                      /\ (href.scheme = "" /\ href.path[1] = "/") =>
                             Lookup(ret.value, t) = Url(base.scheme, base.netloc, href.path)

\* C10 witness: two rows carry the same title with different hrefs, and the one
\* entry of the map is the second row's href under the base url's host
C10_Witness ==
    /\ ret.kind = "ok"
    /\ Harvestable
    /\ Len(args.page.rows) = 2
    /\ args.page.rows[1][1].title = args.page.rows[2][1].title
    /\ args.page.rows[1][1].href = Url("", "", WikiG)
    /\ args.page.rows[2][1].href = Url("", "", WikiK)
    /\ args.configs.ddo_wiki_base_url.path # <<>>
    /\ ret.value = <<<<args.page.rows[2][1].title, Url("https", "ddowiki.com", WikiK)>>>>


----------------------------------------------------------------------------
(* The DataFrame steps of get_monsters_in_quest (main.py 42-53).  A table  *)
(* is [columns, rows]: the column names in order and one function from     *)
(* column name to value per row.                                           *)

Name == <<"N", "a", "m", "e">>
Alignment == <<"A", "l", "i", "g", "n", "m", "e", "n", "t">>
Lawfulness == <<"L", "a", "w", "f", "u", "l", "n", "e", "s", "s">>
Goodness == <<"G", "o", "o", "d", "n", "e", "s", "s">>

\* {**{"Name": key}, **info} (main.py 42)
monster_row(key, info) ==
    [k \in {Name} \cup DOMAIN info |-> IF k \in DOMAIN info THEN info[k] ELSE key]

\* the columns of pd.DataFrame(monster_info): the keys in order of first appearance
DataFrameColumns(rows, keywords) ==
    IF rows = <<>> THEN <<>>
    ELSE <<Name>> \o SelectSeq(keywords,
                               LAMBDA k : k # Name /\ k \in DOMAIN rows[1])

\* the sequence without its later duplicates
RECURSIVE Unique(_)
Unique(seq) ==
    IF seq = <<>> THEN <<>>
    ELSE LET init == Unique(SubSeq(seq, 1, Len(seq) - 1))
             last == seq[Len(seq)]
         IN  IF last \in Range(init) THEN init ELSE Append(init, last)

\* pd.DataFrame(monster_info) (main.py 45)
DataFrame(rows, keywords) ==
    [columns |-> Unique(DataFrameColumns(rows, keywords)), rows |-> rows]

\* main.py 46-49: Lawfulness and Goodness replace Alignment
split_alignment(table) ==
    IF Alignment \in Range(table.columns)
    THEN LET column == [i \in 1..Len(table.rows) |-> table.rows[i][Alignment]]
             lawfulness == get_lawfulness(column)
             goodness == get_goodness(column)
             kept == SelectSeq(table.columns,
                               LAMBDA k : k \notin {Alignment, Lawfulness, Goodness})
         IN  [columns |-> kept \o <<Lawfulness, Goodness>>,
              rows |-> [i \in 1..Len(table.rows) |->
                           [k \in Range(kept) \cup {Lawfulness, Goodness} |->
                               IF k = Lawfulness THEN lawfulness[i]
                               ELSE IF k = Goodness THEN goodness[i]
                               ELSE table.rows[i][k]]]]
    ELSE table

\* mutant of SortBy: the rows are ordered by name before anything else
SortBy_name_first == <<Name, Lawfulness, Goodness, Race>>

\* the columns handed to sort_values (main.py 50)
SortBy == <<Lawfulness, Goodness, Race, Name>>

\* row r sorts before row q under the columns by, compared one after the other
RECURSIVE RowLess(_, _, _)
RowLess(r, q, by) ==
    IF by = <<>> THEN FALSE
    ELSE IF r[Head(by)] = q[Head(by)] THEN RowLess(r, q, Tail(by))
    ELSE StrLess(r[Head(by)], q[Head(by)])

\* one step of the stable sort of the rows
insert_row(sorted_rows, row) ==
    LET n == Cardinality({i \in 1..Len(sorted_rows) : ~RowLess(row, sorted_rows[i], SortBy)})
    IN  SubSeq(sorted_rows, 1, n) \o <<row>> \o SubSeq(sorted_rows, n + 1, Len(sorted_rows))

RECURSIVE sorted_rows(_)
sorted_rows(rows) ==
    IF rows = <<>> THEN <<>>
    ELSE insert_row(sorted_rows(SubSeq(rows, 1, Len(rows) - 1)), rows[Len(rows)])

\* df.sort_values([...]).reset_index(drop=True) (main.py 50-51): KeyError for a
\* column the table does not have
sort_values(table) ==
    IF \E i \in 1..Len(SortBy) : SortBy[i] \notin Range(table.columns)
    THEN Raise("KeyError")
    ELSE Ok([columns |-> table.columns, rows |-> sorted_rows(table.rows)])

----------------------------------------------------------------------------
(* main_loop (main.py 229-259) running get_monsters_in_quest (31-53), one  *)
(* action per blocking step: the prompt, the read of configs.yaml and each *)
(* page fetch with the computation that follows it.  An exception that no  *)
(* except clause catches leaves main_loop: exit_reason names it.           *)

Elf == <<"E", "l", "f">>
Orc == <<"O", "r", "c">>
Pit == <<"P", "i", "t">>
Tod == <<"T", "o", "d">>
Gob == <<"G", "o", "b">>
Kob == <<"K", "o", "b">>
Ogr == <<"O", "g", "r">>

\* "keyword: value"
Field(keyword, value) == keyword \o <<":", " ">> \o value

\* the texts of the monster pages
MonsterTexts ==
    {Join(<<Field(Race, Elf), Field(Alignment, Chaotic \o <<" ">> \o Evil)>>, "\n"),
     Join(<<Field(Alignment, True \o <<" ">> \o Neutral),
            <<" ">> \o Field(Race, Orc) \o <<" ">> \o ListMarker>>, "\n"),
     Field(Race, Elf),
     Join(<<Field(Race, Orc), Field(Alignment, Chaotic \o <<" ">> \o Evil)>>, "\n")}

\* what a monster url can deliver: a page with one of the texts, a page without
\* the content element, or no page
MonsterPages ==
    {Page(TRUE, TRUE, text) : text \in MonsterTexts}
        \cup {Page(TRUE, FALSE, <<>>), Page(FALSE, FALSE, <<>>)}

WikiPath(name) == <<"/", "w", "i", "k", "i", "/">> \o name
WikiCell(name) == <<Link(name, Url("", "", WikiPath(name)))>>

\* what a quest url can deliver
QuestPages ==
    {Listing(TRUE, "Monsters", TRUE, rows) :
        rows \in StrsUpTo({WikiCell(Gob), WikiCell(Kob), WikiCell(Ogr)}, MaxMonsters)}
        \cup {Listing(TRUE, "Loot", TRUE, <<>>), Listing(FALSE, "", FALSE, <<>>)}

\* what the quest listing url can deliver
ListingPages ==
    {Listing(TRUE, Level, TRUE, <<>>),
     Listing(TRUE, Level, TRUE, <<WikiCell(Pit)>>),
     Listing(TRUE, Level, TRUE, <<WikiCell(Pit), WikiCell(Tod)>>),
     Listing(TRUE, "Epic", TRUE, <<WikiCell(Pit)>>),
     Listing(FALSE, "", FALSE, <<>>)}

\* what configs.yaml can hold
ConfigFiles ==
    {Config(Level, Url("https", "ddowiki.com", <<>>), columns) :
        columns \in {<<Race, Alignment>>, <<Alignment, Race>>, <<Race>>, <<Alignment>>}}

\* what the user can type
Inputs == {<<"q">>, <<" ", "Q", "U", "I", "T">>, <<"E", "x", "i", "t", " ">>,
           <<"P", "i", "t">>, <<" ", "t", "o", "d">>, <<>>}

QuitTokens == {<<"q">>, <<"q", "u", "i", "t">>, <<"e", "x", "i", "t">>}

ListingUrl == Url("https", "ddowiki.com", <<"/", "Q">>)

Running == exit_reason = ""

\* main.py 236-244: a new iteration; the locals of the last one are gone
Prompt ==
    /\ Running /\ pc = "prompt"
    /\ \E typed \in Inputs :
          /\ user_input' = Lower(Strip(typed))
          /\ IF Lower(Strip(typed)) \in QuitTokens
             THEN pc' = "prompt" /\ exit_reason' = "quit"
             ELSE pc' = "configs" /\ exit_reason' = ""
    /\ configs' = NoConfigs
    /\ quest_urls' = <<>> /\ closest' = <<>> /\ monster_urls' = <<>>
    /\ monster_info' = <<>> /\ df' = NoTable
    /\ stdout' = <<>> /\ fetched' = <<>>
    /\ UNCHANGED callVars

\* main.py 247-257: configs.yaml is read, or is not there
LoadConfigs ==
    /\ Running /\ pc = "configs"
    /\ \/ /\ exit_reason' = "FileNotFoundError"
          /\ UNCHANGED <<pc, configs>>
       \/ \E file \in ConfigFiles :
             /\ configs' = file
             /\ pc' = "quest_urls"
             /\ UNCHANGED exit_reason
    /\ UNCHANGED <<user_input, quest_urls, closest, monster_urls, monster_info, df,
                   stdout, fetched, callVars>>

\* main.py 36: the quest listing is fetched and harvested
FetchQuestUrls ==
    /\ Running /\ pc = "quest_urls"
    /\ \E page \in ListingPages :
          LET r == get_quest_urls(page, configs)
          IN  IF r.kind = "ok"
              THEN quest_urls' = r.value /\ pc' = "match" /\ UNCHANGED exit_reason
              ELSE exit_reason' = r.kind /\ UNCHANGED <<quest_urls, pc>>
    /\ fetched' = Append(fetched, ListingUrl)
    /\ UNCHANGED <<user_input, configs, closest, monster_urls, monster_info, df,
                   stdout, callVars>>

\* main.py 37-38: the closest quest is chosen and announced
MatchQuest ==
    /\ Running /\ pc = "match"
    /\ LET r == get_closest_matching_quest(
                    user_input, [i \in 1..Len(quest_urls) |-> quest_urls[i][1]])
       IN  IF r.kind = "ok"
           THEN /\ closest' = r.value
                /\ stdout' = Append(stdout, <<"closest matching quest", r.value>>)
                /\ pc' = "monster_urls"
                /\ UNCHANGED exit_reason
           ELSE /\ exit_reason' = r.kind
                /\ UNCHANGED <<closest, stdout, pc>>
    /\ UNCHANGED <<user_input, configs, quest_urls, monster_urls, monster_info, df,
                   fetched, callVars>>

\* main.py 41: the page of the closest quest is fetched and harvested
FetchMonsterUrls ==
    /\ Running /\ pc = "monster_urls"
    /\ IF closest \notin Keys(quest_urls)
       THEN exit_reason' = "KeyError" /\ UNCHANGED <<monster_urls, pc, fetched>>
       ELSE /\ fetched' = Append(fetched, Lookup(quest_urls, closest))
            /\ \E page \in QuestPages :
                  LET r == get_monster_urls(page, configs)
                  IN  IF r.kind = "ok"
                      THEN /\ monster_urls' = r.value
                           /\ pc' = IF r.value = <<>> THEN "table" ELSE "monster_info"
                           /\ UNCHANGED exit_reason
                      ELSE exit_reason' = r.kind /\ UNCHANGED <<monster_urls, pc>>
    /\ UNCHANGED <<user_input, configs, quest_urls, closest, monster_info, df,
                   stdout, callVars>>

\* main.py 42: the page of the next monster is fetched and its record extracted
FetchMonsterInfo ==
    /\ Running /\ pc = "monster_info"
    /\ LET item == monster_urls[Len(monster_info) + 1]
       IN  /\ fetched' = Append(fetched, item[2])
           /\ \E page \in MonsterPages :
                 LET r == get_monster_info(page, configs.columns)
                 IN  IF r.kind = "ok"
                     THEN /\ monster_info' = Append(monster_info, monster_row(item[1], r.value))
                          /\ pc' = IF Len(monster_info) + 1 = Len(monster_urls)
                                   THEN "table" ELSE "monster_info"
                          /\ UNCHANGED exit_reason
                     ELSE exit_reason' = r.kind /\ UNCHANGED <<monster_info, pc>>
    /\ UNCHANGED <<user_input, configs, quest_urls, closest, monster_urls, df,
                   stdout, callVars>>

\* main.py 45-53: the table is built, sorted and returned
BuildTable ==
    /\ Running /\ pc = "table"
    /\ LET r == sort_values(split_alignment(DataFrame(monster_info, configs.columns)))
       IN  IF r.kind = "ok"
           THEN df' = r.value /\ pc' = "print" /\ UNCHANGED exit_reason
           ELSE exit_reason' = r.kind /\ UNCHANGED <<df, pc>>
    /\ UNCHANGED <<user_input, configs, quest_urls, closest, monster_urls, monster_info,
                   stdout, fetched, callVars>>

\* main.py 259: the table is printed; the loop goes round
PrintTable ==
    /\ Running /\ pc = "print"
    /\ stdout' = Append(stdout, <<"table", df>>)
    /\ pc' = "prompt"
    /\ UNCHANGED <<user_input, configs, quest_urls, closest, monster_urls, monster_info,
                   df, fetched, exit_reason, callVars>>

Init == PipeInit /\ args = <<>> /\ ret = NotCalled

Next ==
    \/ Prompt
    \/ LoadConfigs
    \/ FetchQuestUrls
    \/ MatchQuest
    \/ FetchMonsterUrls
    \/ FetchMonsterInfo
    \/ BuildTable
    \/ PrintTable

Spec == Init /\ [][Next]_vars


----------------------------------------------------------------------------
(* The claims about main_loop and get_monsters_in_quest *)

\* C1: main_loop ends only because the user typed a quit token or because
\* configs.yaml could not be loaded; a failed query returns to the prompt.
C1_LoopEndsOnlyByQuitOrConfig ==
    exit_reason \in {"", "quit", "FileNotFoundError"}

\* the harvest of the quest listing came back with an empty map and the
\* matcher has been asked
MatchedAmongNone ==
    /\ quest_urls = <<>>
    /\ \/ pc \in {"monster_urls", "monster_info", "table", "print"}
       \/ pc = "match" /\ ~Running

\* C4: asked to choose among zero candidates the matcher raises instead of
\* returning a value, and get_monsters_in_quest stops there: no matched-quest
\* notice is printed and no page besides the quest listing is fetched.
C4_EmptyCandidatesAbort ==
    MatchedAmongNone =>
        /\ pc = "match"
        /\ exit_reason = "IndexError"
        /\ closest = <<>>
        /\ stdout = <<>>
        /\ fetched = <<ListingUrl>>

\* C4 witness: the matcher has raised on the empty quest map
C4_Witness ==
    /\ MatchedAmongNone
    /\ exit_reason = "IndexError"

\* C5: with a keyword schema that omits "Alignment" or "Race" the pipeline
\* still completes: building the table of the fetched monsters raises nothing.
C5_NoCrashWithoutAlignmentOrRace ==
    (/\ pc = "table"
     /\ monster_info # <<>>
     /\ (Alignment \notin Range(configs.columns) \/ Race \notin Range(configs.columns)))
        => Running

\* the rows of monster_info as the returned table holds them
ExpectedRows == split_alignment(DataFrame(monster_info, configs.columns)).rows

\* C9: the returned table holds one row per harvested monster, the rows are a
\* rearrangement of the per-monster rows, and every adjacent pair is
\* non-decreasing under (Lawfulness, Goodness, Race, Name).
C9_TableSorted ==
    pc = "print" =>
        /\ Len(df.rows) = Len(monster_urls)
        /\ {df.rows[i][Name] : i \in 1..Len(df.rows)} = Keys(monster_urls)
        /\ \A r \in Range(ExpectedRows) :
              Cardinality({i \in 1..Len(df.rows) : df.rows[i] = r})
                  = Cardinality({i \in 1..Len(ExpectedRows) : ExpectedRows[i] = r})
        /\ \A i \in 1..(Len(df.rows) - 1) :
              ~RowLess(df.rows[i + 1], df.rows[i], <<Lawfulness, Goodness, Race, Name>>)

\* C9 witness: a table of two rows returned in the opposite of the harvest order,
\* ordered by lawfulness against the order of the names
C9_Witness ==
    /\ pc = "print"
    /\ Len(df.rows) = 2
    /\ df.rows[1][Name] = monster_urls[2][1]
    /\ df.rows[2][Name] = monster_urls[1][1]
    /\ StrLess(df.rows[1][Lawfulness], df.rows[2][Lawfulness])
    /\ StrLess(df.rows[2][Name], df.rows[1][Name])


============================================================================
